---- MODULE Spec2Model ----
(***************************************************************************)
(* Model of src/server.js: the Excel ingestion route of financial_db.      *)
(*                                                                         *)
(* Text is a sequence of one-character strings, so that trimming, case     *)
(* folding and the regular-expression filters are computed character by    *)
(* character.  A number is the exact decimal m * 10^(-e), kept normalised  *)
(* (e = 0 or m not a multiple of 10).  Row and column indexes are 0-based  *)
(* as in the source; TLA+ sequences are 1-based, so rows[r] of the source  *)
(* is rows[r + 1] here.                                                    *)
(***************************************************************************)
EXTENDS Integers, Sequences, FiniteSets, TLC

VARIABLES
    pc,          \* per upload: where the request is ("idle", "lookup", "upserting", "done")
    file,        \* per upload: the uploaded file (req.file and what XLSX reads from it)
    conn,        \* the single mysql connection `db`: its FIFO queue of commands
    store,       \* financial_records of the (user, year) of the model: month_num -> amount
    store0,      \* history: the store before any upload
    status,      \* per upload: HTTP status sent by done(), 0 while none was sent
    outcome,     \* per upload: which return of the handler ended the ingestion
    stages,      \* history, per upload: the pipeline stages entered, in order
    normalized,  \* per upload: the array `normalized` of the handler
    settled,     \* per upload: number of upsert promises resolved
    responses,   \* history, per upload: number of calls of done()
    changed,     \* history, per upload: an upsert of this upload modified the store
    failed,      \* history, per upload: an upsert of this upload was rejected
    fnIn,        \* argument of the helper under test (helper specifications)
    fnOut        \* <<result>> once the helper was applied, <<>> before

vars == <<pc, file, conn, store, store0, status, outcome, stages, normalized,
          settled, responses, changed, failed, fnIn, fnOut>>

uploadVars == <<pc, file, conn, store, store0, status, outcome, stages, normalized,
                settled, responses, changed, failed>>

-----------------------------------------------------------------------------
(* Characters and strings *)

UpperChars == <<"A","B","C","D","E","F","G","H","I","J","K","L","M",
                "N","O","P","Q","R","S","T","U","V","W","X","Y","Z">>
LowerChars == <<"a","b","c","d","e","f","g","h","i","j","k","l","m",
                "n","o","p","q","r","s","t","u","v","w","x","y","z">>
DigitChars == <<"0","1","2","3","4","5","6","7","8","9">>

DigitSet == { DigitChars[i] : i \in 1..10 }
DigitValOf == [c \in DigitSet |-> CHOOSE d \in 0..9 : DigitChars[d + 1] = c]
UpperSet == { UpperChars[i] : i \in 1..26 }
LowerOf == [c \in UpperSet |-> LowerChars[CHOOSE i \in 1..26 : UpperChars[i] = c]]

IsDigit(c) == c \in DigitSet
DigitVal(c) == DigitValOf[c]
IsSpace(c) == c \in {" ", "\t", "\n"}

LowerChar(c) == IF c \in UpperSet THEN LowerOf[c] ELSE c

toLowerCase(s) == [i \in 1..Len(s) |-> LowerChar(s[i])]

RECURSIVE trimStart(_)
trimStart(s) == IF Len(s) > 0 /\ IsSpace(s[1]) THEN trimStart(Tail(s)) ELSE s

RECURSIVE trimEnd(_)
trimEnd(s) ==
    IF Len(s) > 0 /\ IsSpace(s[Len(s)]) THEN trimEnd(SubSeq(s, 1, Len(s) - 1)) ELSE s

trim(s) == trimEnd(trimStart(s))

NotSpace(c) == ~IsSpace(c)
NotDotComma(c) == c \notin {".", ","}
IsAmountChar(c) == IsDigit(c) \/ c \in {".", "-"}

\* s.replace(/\s+/g, '')
removeSpaces(s) == SelectSeq(s, NotSpace)
\* s.replace(/[.,]/g, '')
removeDotComma(s) == SelectSeq(s, NotDotComma)
\* s.replace(/[^0-9.\-]/g, '')
keepAmountChars(s) == SelectSeq(s, IsAmountChar)

RECURSIVE DigitsToInt(_)
DigitsToInt(s) ==
    IF Len(s) = 0 THEN 0
    ELSE 10 * DigitsToInt(SubSeq(s, 1, Len(s) - 1)) + DigitVal(s[Len(s)])

RECURSIVE DigitRun(_)
\* number of leading digit characters of s
DigitRun(s) == IF Len(s) > 0 /\ IsDigit(s[1]) THEN 1 + DigitRun(Tail(s)) ELSE 0

RECURSIVE IntToDigits(_)
IntToDigits(n) ==
    IF n < 10 THEN <<DigitChars[n + 1]>>
    ELSE IntToDigits(n \div 10) \o <<DigitChars[(n % 10) + 1]>>

-----------------------------------------------------------------------------
(* Numbers and cells *)

RECURSIVE Pow10(_)
Pow10(e) == IF e = 0 THEN 1 ELSE 10 * Pow10(e - 1)

RECURSIVE Normalise(_, _)
Normalise(m, e) ==
    IF e > 0 /\ m % 10 = 0 THEN Normalise(m \div 10, e - 1) ELSE [m |-> m, e |-> e]

\* null of the source, for a month index
NULL == -1

\* a parsed amount: a number, or null of the source
Amount(m, e) == [ok |-> TRUE, m |-> Normalise(m, e).m, e |-> Normalise(m, e).e]
NoAmount == [ok |-> FALSE, m |-> 0, e |-> 0]

\* the four shapes of a raw cell (sheet_to_json with raw:true, cellDates:true, defval:null)
NullCell == [t |-> "null", m |-> 0, e |-> 0, s |-> <<>>]
NumCell(m, e) == [t |-> "num", m |-> Normalise(m, e).m, e |-> Normalise(m, e).e, s |-> <<>>]
TextCell(s) == [t |-> "text", m |-> 0, e |-> 0, s |-> s]
\* a valid Date cell; m is its getMonth()
DateCell(month) == [t |-> "date", m |-> month, e |-> 0, s |-> <<>>]

Abs(n) == IF n < 0 THEN -n ELSE n

RECURSIVE PadDigits(_, _)
\* the digits of n, left-padded with zeros to width w
PadDigits(n, w) ==
    IF w = 0 THEN <<>> ELSE PadDigits(n \div 10, w - 1) \o <<DigitChars[(n % 10) + 1]>>

\* String(val) for null ('' through `c ?? ''`), numbers (plain decimal notation)
\* and text
StringOf(val) ==
    CASE val.t = "null" -> <<>>
      [] val.t = "text" -> val.s
      [] val.t = "num" ->
            (IF val.m < 0 THEN <<"-">> ELSE <<>>)
            \o IntToDigits(Abs(val.m) \div Pow10(val.e))
            \o (IF val.e = 0 THEN <<>>
                ELSE <<".">> \o PadDigits(Abs(val.m) % Pow10(val.e), val.e))

-----------------------------------------------------------------------------
(* monthStringToIndex, src/server.js 54-98 *)

MONTHS == << <<"j","a","n","u","a","r","y">>, <<"f","e","b","r","u","a","r","y">>,
             <<"m","a","r","c","h">>, <<"a","p","r","i","l">>, <<"m","a","y">>,
             <<"j","u","n","e">>, <<"j","u","l","y">>, <<"a","u","g","u","s","t">>,
             <<"s","e","p","t","e","m","b","e","r">>, <<"o","c","t","o","b","e","r">>,
             <<"n","o","v","e","m","b","e","r">>, <<"d","e","c","e","m","b","e","r">> >>

\* the table `abbr`: key -> index
abbr == { <<<<"j","a","n">>, 0>>, <<<<"f","e","b">>, 1>>, <<<<"m","a","r">>, 2>>,
          <<<<"a","p","r">>, 3>>, <<<<"m","a","y">>, 4>>, <<<<"j","u","n">>, 5>>,
          <<<<"j","u","l">>, 6>>, <<<<"a","u","g">>, 7>>, <<<<"s","e","p">>, 8>>,
          <<<<"s","e","p","t">>, 8>>, <<<<"o","c","t">>, 9>>, <<<<"n","o","v">>, 10>>,
          <<<<"d","e","c">>, 11>> }

AllDigits(s) == \A i \in 1..Len(s) : IsDigit(s[i])
NoDigit(s) == \A i \in 1..Len(s) : ~IsDigit(s[i])

\* new Date(s).getMonth(), NULL when the date is invalid, for the strings of the
\* model: those without a digit and those of 1-2 digits.  Node's parser: a string
\* without any number is invalid; a lone number n is a month when 1 <= n <= 12
\* (year 2001), invalid when 13 <= n <= 31, and a year (January 1st) otherwise.
DateMonth(s) ==
    CASE NoDigit(s) -> NULL
      [] AllDigits(s) /\ Len(s) \in 1..2 ->
            LET n == DigitsToInt(s) IN
            IF n \in 1..12 THEN n - 1
            ELSE IF n \in 13..31 THEN NULL
            ELSE 0

MonthOfText(raw) ==
    LET s == toLowerCase(trim(raw))
        d == DateMonth(s)
        cleaned == removeDotComma(s)
        n == DigitsToInt(cleaned)
    IN  IF d # NULL THEN d
        ELSE IF Len(cleaned) \in 1..2 /\ AllDigits(cleaned) /\ n >= 1 /\ n <= 12 THEN n - 1
        ELSE IF \E i \in 1..12 : MONTHS[i] = cleaned
             THEN (CHOOSE i \in 1..12 : MONTHS[i] = cleaned) - 1
        ELSE IF \E p \in abbr : p[1] = cleaned
             THEN (CHOOSE p \in abbr : p[1] = cleaned)[2]
        ELSE NULL

\* integer-valued numeric cells only (val.e = 0)
monthStringToIndex(val) ==
    CASE val.t = "null" -> NULL
      [] val.t = "date" -> val.m
      [] val.t = "num" /\ val.e = 0 ->
            IF val.m >= 1 /\ val.m <= 12 THEN val.m - 1
            ELSE IF val.m >= 0 /\ val.m <= 11 THEN val.m
            ELSE MonthOfText(StringOf(val))
      [] val.t = "text" -> MonthOfText(val.s)

-----------------------------------------------------------------------------
(* parseAmount, src/server.js 101-110 *)

\* parseFloat on a string of digits, '.' and '-': the longest prefix
\* -? digits (. digits)? with at least one digit; NaN (NoAmount) without one
parseFloat(s) ==
    LET neg == Len(s) > 0 /\ s[1] = "-"
        body == IF neg THEN Tail(s) ELSE s
        intLen == DigitRun(body)
        rest == SubSeq(body, intLen + 1, Len(body))
        hasDot == Len(rest) > 0 /\ rest[1] = "."
        fracLen == IF hasDot THEN DigitRun(Tail(rest)) ELSE 0
        mant == DigitsToInt(SubSeq(body, 1, intLen) \o SubSeq(rest, 2, 1 + fracLen))
    IN  IF intLen = 0 /\ fracLen = 0 THEN NoAmount
        ELSE Amount(IF neg THEN -mant ELSE mant, fracLen)

parseAmount(val) ==
    CASE val.t = "null" -> NoAmount
      [] val.t = "num" -> Amount(val.m, val.e)
      [] val.t = "text" ->
            LET s == keepAmountChars(trim(val.s)) IN
            IF s = <<>> \/ s = <<"-">> \/ s = <<".">> \/ s = <<"-", ".">> THEN NoAmount
            ELSE parseFloat(s)

-----------------------------------------------------------------------------
(* findHeaderIndexes, src/server.js 116-130 *)

ScanLimit == 30

MonthLabels == { <<"m","o","n","t","h">>, <<"m","o","n","t","h","s">> }
AmountLabels == { <<"a","m","o","u","n","t">>, <<"v","a","l","u","e">>, <<"a","m","t">> }

\* String(c ?? '').trim().toLowerCase().replace(/\s+/g, '')
normCell(c) == removeSpaces(toLowerCase(trim(StringOf(c))))

normRow(row) == [i \in 1..Len(row) |-> normCell(row[i])]

RECURSIVE findIndexFrom(_, _, _)
\* norm.findIndex(x => labels.includes(x)), scanning from 0-based position i
findIndexFrom(norm, labels, i) ==
    IF i >= Len(norm) THEN -1
    ELSE IF norm[i + 1] \in labels THEN i
    ELSE findIndexFrom(norm, labels, i + 1)

NoHeader == [found |-> FALSE, headerRow |-> -1, monthIdx |-> -1, amountIdx |-> -1]

RECURSIVE scanHeaderFrom(_, _)
\* the for loop of findHeaderIndexes from row r on
scanHeaderFrom(rows, r) ==
    IF ~(r < Len(rows) /\ r < ScanLimit) THEN NoHeader
    ELSE LET norm == normRow(rows[r + 1])
             monthIdx == findIndexFrom(norm, MonthLabels, 0)
             amountIdx == findIndexFrom(norm, AmountLabels, 0)
         IN  IF monthIdx # -1 /\ amountIdx # -1
             THEN [found |-> TRUE, headerRow |-> r, monthIdx |-> monthIdx,
                   amountIdx |-> amountIdx]
             ELSE scanHeaderFrom(rows, r + 1)

RECURSIVE scanAllFrom(_, _)
scanAllFrom(rows, r) ==
    IF ~(r < Len(rows)) THEN NoHeader
    ELSE LET norm == normRow(rows[r + 1])
             monthIdx == findIndexFrom(norm, MonthLabels, 0)
             amountIdx == findIndexFrom(norm, AmountLabels, 0)
         IN  IF monthIdx # -1 /\ amountIdx # -1
             THEN [found |-> TRUE, headerRow |-> r, monthIdx |-> monthIdx,
                   amountIdx |-> amountIdx]
             ELSE scanAllFrom(rows, r + 1)

\* variant: the scan is not limited to the first rows
findHeaderIndexesNoWindow(rows) == scanAllFrom(rows, 0)

\* variant: without a header, the first row and the first two columns are assumed
findHeaderIndexesGuess(rows) ==
    IF scanHeaderFrom(rows, 0).found THEN scanHeaderFrom(rows, 0)
    ELSE [found |-> TRUE, headerRow |-> 0, monthIdx |-> 0, amountIdx |-> 1]

findHeaderIndexes(rows) == scanHeaderFrom(rows, 0)

-----------------------------------------------------------------------------
(* The upload handler, src/server.js 152-239: its synchronous computation *)

\* r[idx] of a row; a position past the end reads undefined, which both
\* helpers treat as null
cellAt(r, idx) == IF idx < Len(r) THEN r[idx + 1] ELSE NullCell

IsNonEmptyRow(r) == Len(r) > 0

\* rows.slice(headerRow + 1).filter(r => Array.isArray(r) && r.length > 0)
dataRowsOf(rows, headerRow) ==
    SelectSeq(SubSeq(rows, headerRow + 2, Len(rows)), IsNonEmptyRow)

RECURSIVE normalizeFrom(_, _, _, _)
\* the loop `for (const r of dataRows)` from 1-based position k on
normalizeFrom(dataRows, monthIdx, amountIdx, k) ==
    IF k > Len(dataRows) THEN <<>>
    ELSE LET r == dataRows[k]
             mi == monthStringToIndex(cellAt(r, monthIdx))
             amt == parseAmount(cellAt(r, amountIdx))
             rest == normalizeFrom(dataRows, monthIdx, amountIdx, k + 1)
         IN  IF mi = NULL \/ ~amt.ok THEN rest
             ELSE <<[monthNum |-> mi + 1, amount |-> amt]>> \o rest

RECURSIVE normalizeBreakFrom(_, _, _, _)
normalizeBreakFrom(dataRows, monthIdx, amountIdx, k) ==
    IF k > Len(dataRows) THEN <<>>
    ELSE LET r == dataRows[k]
             mi == monthStringToIndex(cellAt(r, monthIdx))
             amt == parseAmount(cellAt(r, amountIdx))
         IN  IF mi = NULL \/ ~amt.ok THEN <<>>
             ELSE <<[monthNum |-> mi + 1, amount |-> amt]>>
                  \o normalizeBreakFrom(dataRows, monthIdx, amountIdx, k + 1)

\* variant: `break` in place of `continue` at the first row that does not resolve
normalizeBreak(rows, h) ==
    normalizeBreakFrom(dataRowsOf(rows, h.headerRow), h.monthIdx, h.amountIdx, 1)

normalize(rows, h) == normalizeFrom(dataRowsOf(rows, h.headerRow), h.monthIdx, h.amountIdx, 1)

\* What the callback of the user lookup computes for file f before it touches
\* the connection: the response it sends at once (status 0: none yet), the
\* return that ended it, the stages it went through and `normalized`.
Ended(st, out, sg) == [status |-> st, outcome |-> out, stages |-> sg, normalized |-> <<>>]

\* variant: the `normalized.length === 0` return is missing
ingestNoEmptyCheck(f) ==
    IF f.kind = "unreadable" THEN Ended(400, "ReadError", <<>>)
    ELSE IF f.kind = "nosheet" THEN Ended(400, "NoWorksheet", <<>>)
    ELSE IF Len(f.rows) = 0 THEN Ended(400, "EmptyWorksheet", <<>>)
    ELSE LET h == findHeaderIndexes(f.rows) IN
         IF ~h.found THEN Ended(400, "HeaderNotFound", <<"LOCATING_HEADER">>)
         ELSE [status |-> 0, outcome |-> "RecordSet",
               stages |-> <<"LOCATING_HEADER", "AGGREGATING", "DONE">>,
               normalized |-> normalize(f.rows, h)]

ingest(f) ==
    IF f.kind = "unreadable" THEN Ended(400, "ReadError", <<>>)
    ELSE IF f.kind = "nosheet" THEN Ended(400, "NoWorksheet", <<>>)
    ELSE IF Len(f.rows) = 0 THEN Ended(400, "EmptyWorksheet", <<>>)
    ELSE LET h == findHeaderIndexes(f.rows) IN
         IF ~h.found THEN Ended(400, "HeaderNotFound", <<"LOCATING_HEADER">>)
         ELSE LET n == normalize(f.rows, h) IN
              IF Len(n) = 0
              THEN Ended(400, "NoValidRows", <<"LOCATING_HEADER", "AGGREGATING">>)
              ELSE [status |-> 0, outcome |-> "RecordSet",
                    stages |-> <<"LOCATING_HEADER", "AGGREGATING", "DONE">>,
                    normalized |-> n]

-----------------------------------------------------------------------------
(* Inputs of the upload model *)

MaxDataRows == 2

T_Month == <<"M","o","n","t","h">>
T_Amount == <<"A","m","o","u","n","t">>
T_Report == <<"R","e","p","o","r","t">>
T_Mar == <<"M","a","r">>
T_February == <<"F","e","b","r","u","a","r","y">>
T_garbage == <<"g","a","r","b","a","g","e">>
T_NA == <<"N","/","A">>

HeaderRow == <<TextCell(T_Month), TextCell(T_Amount)>>
NoiseRow == <<TextCell(T_Report), NullCell>>

DataRowSet ==
    { <<TextCell(T_Mar), NumCell(100, 0)>>,
      <<NumCell(3, 0), NumCell(150, 0)>>,
      <<TextCell(T_February), NumCell(5025, 2)>>,
      <<TextCell(T_garbage), TextCell(T_NA)>>,
      <<TextCell(T_Mar)>>,
      <<>> }

SeqsUpTo(S, n) == UNION { [1..k -> S] : k \in 0..n }

Sheet(rows) == [kind |-> "sheet", rows |-> rows]
NoFile == [kind |-> "nofile", rows |-> <<>>]
Unreadable == [kind |-> "unreadable", rows |-> <<>>]
NoSheet == [kind |-> "nosheet", rows |-> <<>>]

\* sheets with a header (possibly under a noise row), and sheets without one
Sheets ==
    { Sheet(pre \o <<HeaderRow>> \o body) :
        pre \in {<<>>, <<NoiseRow>>}, body \in SeqsUpTo(DataRowSet, MaxDataRows) }
    \cup { Sheet(body) : body \in SeqsUpTo(DataRowSet, MaxDataRows) }
    \cup { Sheet(<<NoiseRow>>) }

Files == Sheets \cup {NoFile, Unreadable, NoSheet}

\* a fixed sheet for February, which later clients may send
Fixtures == { Sheet(<<HeaderRow, <<TextCell(T_February), NumCell(7, 0)>> >>) }

Uploads == 1..2
MonthNums == 1..12

\* the stores the model starts from: empty, or March already recorded
InitialStores ==
    { [k \in MonthNums |-> NoAmount],
      [k \in MonthNums |-> IF k = 3 THEN Amount(999, 0) ELSE NoAmount] }

-----------------------------------------------------------------------------
(* The upload route: requests, the connection queue, the store *)

Select(i) == [kind |-> "select", up |-> i, monthNum |-> 0, amount |-> NoAmount]
Upsert(i, rec) == [kind |-> "upsert", up |-> i, monthNum |-> rec.monthNum, amount |-> rec.amount]

\* the db.query calls of `normalized.map(...)`, in array order
upsertsOf(i, n) == [k \in 1..Len(n) |-> Upsert(i, n[k])]

\* variant: INSERT IGNORE, an existing row keeps its amount
applyUpsertIgnore(st, monthNum, amount) ==
    IF st[monthNum].ok THEN st ELSE [st EXCEPT ![monthNum] = amount]

\* INSERT ... ON DUPLICATE KEY UPDATE amount = VALUES(amount)
applyUpsert(st, monthNum, amount) == [st EXCEPT ![monthNum] = amount]

UploadInit ==
    /\ pc = [i \in Uploads |-> "idle"]
    /\ file = [i \in Uploads |-> NoFile]
    /\ conn = <<>>
    /\ store \in InitialStores
    /\ store0 = store
    /\ status = [i \in Uploads |-> 0]
    /\ outcome = [i \in Uploads |-> "none"]
    /\ stages = [i \in Uploads |-> <<>>]
    /\ normalized = [i \in Uploads |-> <<>>]
    /\ settled = [i \in Uploads |-> 0]
    /\ responses = [i \in Uploads |-> 0]
    /\ changed = [i \in Uploads |-> FALSE]
    /\ failed = [i \in Uploads |-> FALSE]

\* what a client may send as upload i (uploads are numbered in order of
\* arrival): anything first, then an earlier file again or a fixture
FileChoices(i) ==
    IF i = 1 THEN Files ELSE { file[j] : j \in 1..(i - 1) } \cup Fixtures

\* done(status, payload) of upload i ending it with `out`
Respond(i, st, out) ==
    /\ status' = [status EXCEPT ![i] = st]
    /\ outcome' = [outcome EXCEPT ![i] = out]
    /\ responses' = [responses EXCEPT ![i] = @ + 1]
    /\ pc' = [pc EXCEPT ![i] = "done"]

\* POST /api/finances/upload/:userid/:year arrives: lines 158-168
Request(i) ==
    /\ pc[i] = "idle"
    /\ \A j \in 1..(i - 1) : pc[j] # "idle"    \* numbered in order of arrival
    /\ \E f \in FileChoices(i), paramsOk \in BOOLEAN :
        /\ file' = [file EXCEPT ![i] = f]
        /\ IF f.kind = "nofile"
           THEN Respond(i, 400, "NoFile") /\ UNCHANGED conn
           ELSE IF ~paramsOk
           THEN Respond(i, 400, "BadParams") /\ UNCHANGED conn
           ELSE /\ conn' = Append(conn, Select(i))
                /\ pc' = [pc EXCEPT ![i] = "lookup"]
                /\ UNCHANGED <<status, outcome, responses>>
    /\ UNCHANGED <<store, store0, stages, normalized, settled, changed, failed, fnIn, fnOut>>

\* the connection answers the user lookup at its head; the callback of lines
\* 168-235 runs to its end, enqueuing every upsert of the batch
UserLookup ==
    /\ Len(conn) > 0
    /\ Head(conn).kind = "select"
    /\ LET i == Head(conn).up IN
       \E answer \in {"error", "nouser", "found"} :
          IF answer = "error"
          THEN Respond(i, 500, "DbError") /\ conn' = Tail(conn)
               /\ UNCHANGED <<stages, normalized>>
          ELSE IF answer = "nouser"
          THEN Respond(i, 404, "UserNotFound") /\ conn' = Tail(conn)
               /\ UNCHANGED <<stages, normalized>>
          ELSE LET res == ingest(file[i]) IN
               /\ stages' = [stages EXCEPT ![i] = res.stages]
               /\ normalized' = [normalized EXCEPT ![i] = res.normalized]
               /\ IF res.status # 0
                  THEN Respond(i, res.status, res.outcome) /\ conn' = Tail(conn)
                  ELSE /\ conn' = Tail(conn) \o upsertsOf(i, res.normalized)
                       /\ outcome' = [outcome EXCEPT ![i] = res.outcome]
                       /\ pc' = [pc EXCEPT ![i] = "upserting"]
                       /\ UNCHANGED <<status, responses>>
    /\ UNCHANGED <<file, store, store0, settled, changed, failed, fnIn, fnOut>>

\* variant: every rejection of the batch answers
catchRunsAlways(i) == TRUE

\* Promise.all settles once: its catch handler runs on the first rejection
\* of the batch only
catchRuns(i) == ~failed[i]

\* the connection executes the upsert at its head and calls back: lines 225-234.
\* Promise.all answers 200 once every promise is resolved and 500 on the first
\* rejection; later settlements of a rejected batch send nothing.
RunUpsert ==
    /\ Len(conn) > 0
    /\ Head(conn).kind = "upsert"
    /\ LET q == Head(conn)
           i == q.up
       IN  \E iErr \in BOOLEAN :
             /\ conn' = Tail(conn)
             /\ IF iErr
                THEN /\ failed' = [failed EXCEPT ![i] = TRUE]
                     /\ IF catchRuns(i)
                        THEN /\ status' = [status EXCEPT ![i] = 500]
                             /\ responses' = [responses EXCEPT ![i] = @ + 1]
                        ELSE UNCHANGED <<status, responses>>
                     /\ pc' = [pc EXCEPT ![i] =
                                 IF \E k \in 1..Len(conn') : conn'[k].up = i
                                 THEN "upserting" ELSE "done"]
                     /\ UNCHANGED <<store, settled, changed>>
                ELSE /\ store' = applyUpsert(store, q.monthNum, q.amount)
                     /\ changed' = [changed EXCEPT ![i] = @ \/ store' # store]
                     /\ settled' = [settled EXCEPT ![i] = @ + 1]
                     /\ IF settled'[i] = Len(normalized[i])
                        THEN /\ status' = [status EXCEPT ![i] = 200]
                             /\ responses' = [responses EXCEPT ![i] = @ + 1]
                        ELSE UNCHANGED <<status, responses>>
                     /\ pc' = [pc EXCEPT ![i] =
                                 IF \E k \in 1..Len(conn') : conn'[k].up = i
                                 THEN "upserting" ELSE "done"]
                     /\ UNCHANGED failed
    /\ UNCHANGED <<file, store0, outcome, stages, normalized, fnIn, fnOut>>

Init == UploadInit /\ fnIn = <<>> /\ fnOut = <<>>

Next == (\E i \in Uploads : Request(i)) \/ UserLookup \/ RunUpsert

Spec == Init /\ [][Next]_vars

-----------------------------------------------------------------------------
(* Helper specifications: one helper applied to one argument *)

MaxCols == 3
MaxAmountLen == 4

NoStore == [k \in MonthNums |-> NoAmount]

\* month cells: the integers 0..99 as numbers and as text of 1-2 digits, names,
\* abbreviations, a Date cell, an absent cell
MonthCodes == 0..99

T_January == <<"J","a","n","u","a","r","y">>
T_jan == <<"j","a","n">>
T_Sept == <<" ","S","e","p","t","."," ">>

MonthInputs ==
    { NumCell(n, 0) : n \in MonthCodes }
    \cup { TextCell(IntToDigits(n)) : n \in MonthCodes }
    \cup { TextCell(<<"0">> \o IntToDigits(n)) : n \in 0..9 }
    \cup { TextCell(T_January), TextCell(T_jan), TextCell(T_Sept), TextCell(T_Mar),
           TextCell(T_garbage), DateCell(6), NullCell }

AmountChars == {"1", "5", "0", "-", ".", "$", ",", " "}

AmountInputs ==
    { TextCell(s) : s \in SeqsUpTo(AmountChars, MaxAmountLen) }
    \cup { NumCell(75, 1), NumCell(-42, 0), NullCell }

T_MONTHS == <<" ","M","O","N","T","H","S"," ">>
T_a_mt == <<"A"," ","m","t">>
T_Value == <<"V","a","l","u","e">>
T_Monthly == <<"M","o","n","t","h","l","y">>

LabelCells ==
    { TextCell(T_Month), TextCell(T_MONTHS), TextCell(T_a_mt), TextCell(T_Value),
      TextCell(T_Monthly), NullCell }

\* noise rows, then a row of label cells, then possibly a plain header
HeaderGrids ==
    { [k \in 1..pad |-> NoiseRow] \o <<row>> \o tail :
        pad \in {0, 1, 28, 29, 30},
        row \in SeqsUpTo(LabelCells, MaxCols),
        tail \in {<<>>, <<HeaderRow>>, << <<TextCell(T_Value), TextCell(T_MONTHS)>> >>} }

InitMonth == UploadInit /\ store = NoStore /\ fnIn \in MonthInputs /\ fnOut = <<>>
ResolveMonth ==
    /\ fnOut = <<>>
    /\ fnOut' = <<monthStringToIndex(fnIn)>>
    /\ UNCHANGED <<uploadVars, fnIn>>
NextMonth == ResolveMonth
SpecMonth == InitMonth /\ [][NextMonth]_vars

InitAmount == UploadInit /\ store = NoStore /\ fnIn \in AmountInputs /\ fnOut = <<>>
ParseAmount ==
    /\ fnOut = <<>>
    /\ fnOut' = <<parseAmount(fnIn)>>
    /\ UNCHANGED <<uploadVars, fnIn>>
NextAmount == ParseAmount
SpecAmount == InitAmount /\ [][NextAmount]_vars

InitHeader == UploadInit /\ store = NoStore /\ fnIn \in HeaderGrids /\ fnOut = <<>>
FindHeader ==
    /\ fnOut = <<>>
    /\ fnOut' = <<findHeaderIndexes(fnIn)>>
    /\ UNCHANGED <<uploadVars, fnIn>>
NextHeader == FindHeader
SpecHeader == InitHeader /\ [][NextHeader]_vars

-----------------------------------------------------------------------------
(* Vocabulary of the properties, stated on the grid itself *)

HasLabel(row, labels) == \E c \in 1..Len(row) : normCell(row[c]) \in labels

Qualifies(row) == HasLabel(row, MonthLabels) /\ HasLabel(row, AmountLabels)

\* smallest 0-based column of row whose normalised cell is one of labels
FirstLabelCol(row, labels) ==
    CHOOSE c \in 0..(Len(row) - 1) :
        /\ normCell(row[c + 1]) \in labels
        /\ \A d \in 0..(c - 1) : normCell(row[d + 1]) \notin labels

\* 0-based indexes below 30 of the rows with both kinds of label
QualifyingRows(rows) == { r \in 0..(Len(rows) - 1) : r < 30 /\ Qualifies(rows[r + 1]) }

HeaderExists(rows) == QualifyingRows(rows) # {}

FirstHeaderRow(rows) ==
    LET Q == QualifyingRows(rows) IN CHOOSE r \in Q : \A q \in Q : r <= q

MonthCol(rows) == FirstLabelCol(rows[FirstHeaderRow(rows) + 1], MonthLabels)
AmountCol(rows) == FirstLabelCol(rows[FirstHeaderRow(rows) + 1], AmountLabels)

\* row has, at columns mc and ac, a month cell and an amount cell that both resolve
RowResolves(row, mc, ac) ==
    /\ monthStringToIndex(cellAt(row, mc)) # NULL
    /\ parseAmount(cellAt(row, ac)).ok

RecordOfRow(row, mc, ac) ==
    [monthNum |-> monthStringToIndex(cellAt(row, mc)) + 1,
     amount |-> parseAmount(cellAt(row, ac))]

\* the 0-based indexes of the rows strictly after the header that resolve
ContributingRows(rows) ==
    LET hr == FirstHeaderRow(rows)
        mc == FirstLabelCol(rows[hr + 1], MonthLabels)
        ac == FirstLabelCol(rows[hr + 1], AmountLabels)
    IN  { k \in (hr + 1)..(Len(rows) - 1) : RowResolves(rows[k + 1], mc, ac) }

\* upload i read its worksheet into rows (it got past the user lookup and XLSX)
GridRead(i) ==
    /\ file[i].kind = "sheet"
    /\ pc[i] \in {"upserting", "done"}
    /\ outcome[i] \notin {"BadParams", "DbError", "UserNotFound"}

\* upload i handed at least one upsert to the connection
IssuedUpserts(i) ==
    \/ \E k \in 1..Len(conn) : conn[k].kind = "upsert" /\ conn[k].up = i
    \/ settled[i] > 0
    \/ failed[i]

MonthsOf(n) == { n[k].monthNum : k \in 1..Len(n) }

\* amount of the last record of n for month m
LastAmount(n, m) ==
    n[CHOOSE k \in 1..Len(n) :
        n[k].monthNum = m /\ \A j \in (k + 1)..Len(n) : n[j].monthNum # m].amount

-----------------------------------------------------------------------------
(* Properties *)

\* C1: the record set an upload hands to persistence has at most one entry per
\* month number.
C1_OneEntryPerMonth ==
    \A i \in Uploads :
        outcome[i] = "RecordSet" =>
            \A j, k \in 1..Len(normalized[i]) :
                j # k => normalized[i][j].monthNum # normalized[i][k].monthNum

NoRowQualifies(rows) == \A r \in 1..Len(rows) : ~Qualifies(rows[r])

\* C2, as claimed: every grid, the grid with zero rows included, in which no row
\* has both kinds of label ends with HeaderNotFound and produces no record.
C2_HeaderNotFoundForAnyGrid ==
    \A i \in Uploads :
        GridRead(i) /\ NoRowQualifies(file[i].rows) =>
            /\ outcome[i] = "HeaderNotFound"
            /\ normalized[i] = <<>>
            /\ ~IssuedUpserts(i)

\* C2, amended: a grid with at least one row and no row with both kinds of label
\* ends with HeaderNotFound, a grid with zero rows ends with the separate
\* EmptyWorksheet failure; both answer 400, produce no record and issue no upsert.
C2_HeaderNotFoundOrEmptyWorksheet ==
    \A i \in Uploads :
        GridRead(i) /\ NoRowQualifies(file[i].rows) =>
            /\ outcome[i] = IF Len(file[i].rows) = 0 THEN "EmptyWorksheet"
                            ELSE "HeaderNotFound"
            /\ status[i] = 400
            /\ normalized[i] = <<>>
            /\ ~IssuedUpserts(i)
            /\ ~changed[i]

\* a header-less grid holding a row whose first two cells would resolve was
\* answered HeaderNotFound
C2_Witness ==
    \E i \in Uploads :
        /\ GridRead(i) /\ NoRowQualifies(file[i].rows)
        /\ outcome[i] = "HeaderNotFound"
        /\ \E r \in 1..Len(file[i].rows) :
              /\ monthStringToIndex(cellAt(file[i].rows[r], 0)) # NULL
              /\ parseAmount(cellAt(file[i].rows[r], 1)).ok

\* C3: a grid whose header is found and in which no row after the header
\* resolves ends with NoValidRows (status 400) and issues no upsert; no upload
\* succeeds with an empty record set.
C3_NoValidRows ==
    \A i \in Uploads :
        /\ GridRead(i) /\ HeaderExists(file[i].rows)
              /\ ContributingRows(file[i].rows) = {} =>
                 /\ outcome[i] = "NoValidRows"
                 /\ status[i] = 400
                 /\ ~IssuedUpserts(i)
        /\ (status[i] = 200 \/ outcome[i] = "RecordSet") => Len(normalized[i]) > 0

\* a header followed by two non-empty rows, none of which resolves, ended with
\* NoValidRows
C3_Witness ==
    \E i \in Uploads :
        /\ GridRead(i) /\ HeaderExists(file[i].rows)
        /\ ContributingRows(file[i].rows) = {}
        /\ Cardinality({ k \in (FirstHeaderRow(file[i].rows) + 1)..(Len(file[i].rows) - 1) :
                           Len(file[i].rows[k + 1]) > 0 }) >= 2
        /\ outcome[i] = "NoValidRows"

Ok200(i) == pc[i] = "done" /\ status[i] = 200

\* the store after the records n were upserted over st
NetEffect(st, n) ==
    [m \in MonthNums |-> IF m \in MonthsOf(n) THEN LastAmount(n, m) ELSE st[m]]

C5_LowestQualifyingRow ==
    fnOut # <<>> =>
        LET h == fnOut[1]
            Q == QualifyingRows(fnIn)
        IN  IF Q = {} THEN ~h.found
            ELSE /\ h.found
                 /\ h.headerRow \in Q
                 /\ \A q \in Q : h.headerRow <= q
                 /\ h.headerRow < 30
                 /\ h.monthIdx = FirstLabelCol(fnIn[h.headerRow + 1], MonthLabels)
                 /\ h.amountIdx = FirstLabelCol(fnIn[h.headerRow + 1], AmountLabels)

\* the header was found at index 29, after the amount label and before a second
\* month label, with a qualifying row at index 30 behind it
C5_Witness ==
    /\ fnOut # <<>>
    /\ fnOut[1].found /\ fnOut[1].headerRow = 29
    /\ fnOut[1].monthIdx = 1 /\ fnOut[1].amountIdx = 0
    /\ Len(fnIn) = 31 /\ Qualifies(fnIn[31])
    /\ Len(fnIn[30]) = 3 /\ normCell(fnIn[30][3]) \in MonthLabels

\* C6: with a header found, `normalized` holds exactly one record per row
\* strictly after the header whose month cell and amount cell both resolve, in
\* row order, each the resolution of that row's own cells; every other row is
\* dropped.
C6_RowsIndependent ==
    \A i \in Uploads :
        GridRead(i) /\ HeaderExists(file[i].rows) =>
            LET rows == file[i].rows
                K == ContributingRows(rows)
                mc == MonthCol(rows)
                ac == AmountCol(rows)
            IN  /\ Len(normalized[i]) = Cardinality(K)
                /\ \A k \in K :
                      normalized[i][1 + Cardinality({ q \in K : q < k })]
                          = RecordOfRow(rows[k + 1], mc, ac)

\* a non-empty row that does not resolve precedes a row that contributed
C6_Witness ==
    \E i \in Uploads :
        /\ GridRead(i) /\ HeaderExists(file[i].rows)
        /\ outcome[i] = "RecordSet"
        /\ \E k \in ContributingRows(file[i].rows) :
              \E d \in (FirstHeaderRow(file[i].rows) + 1)..(k - 1) :
                  /\ d \notin ContributingRows(file[i].rows)
                  /\ Len(file[i].rows[d + 1]) > 0

IsMonthCode(c) ==
    \/ c.t = "num" /\ c.e = 0 /\ c.m >= 0
    \/ c.t = "text" /\ Len(c.s) \in 1..2 /\ AllDigits(c.s)

CodeOf(c) == IF c.t = "num" THEN c.m ELSE DigitsToInt(c.s)

\* C7: an integer n, as a numeric cell or as text of 1-2 digits, resolves to
\* n - 1 when 1 <= n <= 12, to 0 when n = 0, and is unresolved otherwise.
C7_IntegerMonth ==
    fnOut # <<>> /\ IsMonthCode(fnIn) =>
        fnOut[1] = (IF CodeOf(fnIn) \in 1..12 THEN CodeOf(fnIn) - 1
                    ELSE IF CodeOf(fnIn) = 0 THEN 0
                    ELSE NULL)

NotMinus(c) == c # "-"

\* the claim's reduction: trim, keep digits and '.', and '-' only as first character
ClaimReduce(s) ==
    LET f == keepAmountChars(trim(s)) IN
    IF Len(f) = 0 THEN <<>> ELSE <<f[1]>> \o SelectSeq(Tail(f), NotMinus)

IsDot(c) == c = "."

\* value of -?digits(.digits)? read as a decimal
DecimalValue(r) ==
    LET digits == SelectSeq(r, IsDigit)
        dot == CHOOSE k \in 1..Len(r) : r[k] = "."
        fracLen == IF \E k \in 1..Len(r) : r[k] = "." THEN Len(r) - dot ELSE 0
        mant == DigitsToInt(digits)
    IN  Amount(IF r[1] = "-" THEN -mant ELSE mant, fracLen)

\* C8: a text cell parses to the decimal value of its reduction (digits, '.'
\* and one leading '-'), is unresolved when that is empty, '-', '.' or '-.';
\* a numeric cell is returned unchanged.
C8_AmountOfReducedText ==
    fnOut # <<>> =>
        CASE fnIn.t = "num" -> fnOut[1] = Amount(fnIn.m, fnIn.e)
          [] fnIn.t = "text" ->
                LET r == ClaimReduce(fnIn.s) IN
                IF r \in {<<>>, <<"-">>, <<".">>, <<"-", ".">>} THEN fnOut[1] = NoAmount
                ELSE Len(SelectSeq(r, IsDot)) <= 1 /\ SelectSeq(r, IsDigit) # <<>> =>
                        fnOut[1] = DecimalValue(r)
          [] OTHER -> TRUE

PipelineStages == <<"LOCATING_HEADER", "AGGREGATING", "DONE">>

C9_State ==
    \A i \in Uploads :
        /\ Len(stages[i]) <= 3
        /\ stages[i] = SubSeq(PipelineStages, 1, Len(stages[i]))
        /\ Len(stages[i]) >= 2 => file[i].kind = "sheet" /\ HeaderExists(file[i].rows)
        /\ IssuedUpserts(i) => stages[i] = PipelineStages /\ Len(normalized[i]) > 0
        /\ Len(stages[i]) = 3 => Len(normalized[i]) > 0
        /\ responses[i] <= 1
        /\ Len(stages[i]) = 1 => outcome[i] = "HeaderNotFound"
        /\ Len(stages[i]) = 2 => outcome[i] = "NoValidRows"
        /\ Len(stages[i]) = 3 => outcome[i] = "RecordSet"
        /\ Len(stages[i]) \in {1, 2} =>
              pc[i] = "done" /\ status[i] = 400 /\ responses[i] = 1

C9_Step ==
    \A i \in Uploads :
        /\ stages[i] # <<>> => stages'[i] = stages[i]
        /\ outcome[i] # "none" => outcome'[i] = outcome[i]
        /\ status[i] # 0 => status'[i] = status[i]

C10_ErrorLeavesStore ==
    \A i \in Uploads : status[i] >= 400 => ~changed[i]

====
